---- MODULE Spec2Model ----
(***************************************************************************)
(* QE-Demo: a Flask backend that keeps administrator records in one CSV    *)
(* file (src/server.py) and selects a configuration profile from the       *)
(* FLASK_ENV environment variable (src/config/server.py).                  *)
(*                                                                         *)
(* Text is a sequence of one-character strings, so that the CSV writer and *)
(* the CSV reader work on the characters of the file, as Python's csv      *)
(* module does with the default (excel) dialect.  JSON values of a request *)
(* keep their type: [t |-> "str" | "num" | "null" | "absent", v |-> text]. *)
(***************************************************************************)
EXTENDS Integers, Sequences, FiniteSets, TLC

VARIABLES env, phase, app_config, fs, log, resp, threads

vars == <<env, phase, app_config, fs, log, resp, threads>>

(***************************************************************************)
(* Bounds of the model.                                                    *)
(***************************************************************************)
\* save_admin requests handled in one process lifetime
MaxReqs == 2

(***************************************************************************)
(* Characters and text.                                                    *)
(***************************************************************************)
COMMA == ","
DQUOTE == "\""
CR == "\r"
LF == "\n"

USERNAME == <<"u", "s", "e", "r", "n", "a", "m", "e">>
EMAIL == <<"e", "m", "a", "i", "l">>
PASSWORD == <<"p", "a", "s", "s", "w", "o", "r", "d">>
ROLE == <<"r", "o", "l", "e">>
CREATED == <<"c", "r", "e", "a", "t", "e", "d">>

\* the header row written at start-up and by the exit hook
HeaderRow == <<USERNAME, EMAIL, PASSWORD, ROLE, CREATED>>

(***************************************************************************)
(* JSON values of a request body and Python's view of them.                *)
(***************************************************************************)
Str(t) == [t |-> "str", v |-> t]
Num(t) == [t |-> "num", v |-> t]
Null == [t |-> "null", v |-> <<>>]
Absent == [t |-> "absent", v |-> <<>>]

\* dict.get(key): None when the key is absent
DictGet(val) == IF val.t = "absent" THEN Null ELSE val

\* dict.get(key, ""): the default only when the key is absent
DictGetDefault(val) == IF val.t = "absent" THEN Str(<<>>) ELSE val

\* variant for C4: "is None" in place of truthiness, so "" counts as present
TruthyNotNone(val) == val.t # "null"

\* Python truthiness, as used by "not username or not email ..."
Truthy(val) ==
    CASE val.t = "str" -> val.v # <<>>
      [] val.t = "num" -> val.v # <<"0">>
      [] OTHER -> FALSE

\* the text the csv writer stores for a value: None as "", anything else str()
CsvText(val) == IF val.t \in {"null", "absent"} THEN <<>> ELSE val.v

(***************************************************************************)
(* csv.writer, excel dialect: QUOTE_MINIMAL, doublequote, "\r\n".          *)
(***************************************************************************)
NeedsQuote(c) == c \in {COMMA, DQUOTE, CR, LF}

RECURSIVE DoubleQuotes(_)
DoubleQuotes(t) ==
    IF t = <<>> THEN <<>>
    ELSE (IF Head(t) = DQUOTE THEN <<DQUOTE, DQUOTE>> ELSE <<Head(t)>>)
         \o DoubleQuotes(Tail(t))

\* variant for C2: a writer that never quotes a field
EncodeFieldUnquoted(t) == t

EncodeField(t) ==
    IF \E i \in 1..Len(t) : NeedsQuote(t[i])
    THEN <<DQUOTE>> \o DoubleQuotes(t) \o <<DQUOTE>>
    ELSE t

RECURSIVE JoinFields(_)
JoinFields(fields) ==
    IF fields = <<>> THEN <<>>
    ELSE IF Len(fields) = 1 THEN EncodeField(fields[1])
    ELSE EncodeField(Head(fields)) \o <<COMMA>> \o JoinFields(Tail(fields))

\* writer.writerow(fields): the characters of one line
WriteRow(fields) ==
    (IF fields = <<<<>>>> THEN <<DQUOTE, DQUOTE>> ELSE JoinFields(fields))
    \o <<CR, LF>>

(***************************************************************************)
(* csv.reader, excel dialect, over the characters of the whole file (the   *)
(* file is opened with newline="", so quoted line breaks reach the reader  *)
(* untranslated).  The states are those of the module's parser; a line     *)
(* break outside quotes ends the record, and the empty records of blank    *)
(* lines are the ones DictReader skips.                                    *)
(***************************************************************************)
ParserStates ==
    {"START_RECORD", "START_FIELD", "IN_FIELD", "IN_QUOTED_FIELD", "QUOTE_IN_QUOTED_FIELD"}

PState(st, field, row, rows) == [st |-> st, field |-> field, row |-> row, rows |-> rows]

\* one character through the parser
ParseChar(a, c) ==
    LET st == IF a.st = "START_RECORD" /\ c \notin {CR, LF} THEN "START_FIELD" ELSE a.st
        endRecord == PState("START_RECORD", <<>>, <<>>, Append(a.rows, Append(a.row, a.field)))
        endField == PState("START_FIELD", <<>>, Append(a.row, a.field), a.rows)
        addChar(next) == PState(next, Append(a.field, c), a.row, a.rows)
    IN
    CASE st = "START_RECORD" -> a
      [] st = "START_FIELD" ->
           IF c \in {CR, LF} THEN endRecord
           ELSE IF c = DQUOTE THEN PState("IN_QUOTED_FIELD", a.field, a.row, a.rows)
           ELSE IF c = COMMA THEN endField
           ELSE addChar("IN_FIELD")
      [] st = "IN_FIELD" ->
           IF c \in {CR, LF} THEN endRecord
           ELSE IF c = COMMA THEN endField
           ELSE addChar("IN_FIELD")
      [] st = "IN_QUOTED_FIELD" ->
           IF c = DQUOTE THEN PState("QUOTE_IN_QUOTED_FIELD", a.field, a.row, a.rows)
           ELSE addChar("IN_QUOTED_FIELD")
      [] OTHER ->  \* QUOTE_IN_QUOTED_FIELD
           IF c = DQUOTE THEN addChar("IN_QUOTED_FIELD")
           ELSE IF c = COMMA THEN endField
           ELSE IF c \in {CR, LF} THEN endRecord
           ELSE addChar("IN_FIELD")

\* the characters s[lo..hi] through the parser, by halves: the state after the
\* left half is computed, then the right half runs from it
RECURSIVE ParseRange(_, _, _, _)
ParseRange(s, lo, hi, a) ==
    IF lo > hi THEN a
    ELSE IF lo = hi THEN ParseChar(a, s[lo])
    ELSE LET mid == (lo + hi) \div 2
             left == ParseRange(s, lo, mid, a)
         IN IF left.st \in ParserStates
            THEN ParseRange(s, mid + 1, hi, left)
            ELSE left

\* list(csv.reader(file)) without the empty records; at the end of the file
\* an unfinished record is returned as it stands
ReadRows(data) ==
    LET a == ParseRange(data, 1, Len(data), PState("START_RECORD", <<>>, <<>>, <<>>))
    IN IF a.st = "START_RECORD" THEN a.rows
       ELSE Append(a.rows, Append(a.row, a.field))

(***************************************************************************)
(* csv.DictReader: the first record names the fields; every later record   *)
(* becomes a dict.  A short record is filled with None (restval), surplus  *)
(* values go under the key None (restkey).                                 *)
(***************************************************************************)
Range(f) == {f[i] : i \in DOMAIN f}

RESTKEY == <<"<None>">>

RECURSIVE Flatten(_)
Flatten(fields) == IF fields = <<>> THEN <<>> ELSE Head(fields) \o Flatten(Tail(fields))

DictRow(fieldnames, row) ==
    LET last(k) == CHOOSE i \in DOMAIN fieldnames :
                      /\ fieldnames[i] = k
                      /\ \A j \in DOMAIN fieldnames : fieldnames[j] = k => j <= i
        keys == Range(fieldnames)
                  \cup (IF Len(row) > Len(fieldnames) THEN {RESTKEY} ELSE {})
    IN [k \in keys |->
          IF k \notin Range(fieldnames)
          THEN [t |-> "list", v |-> Flatten(SubSeq(row, Len(fieldnames) + 1, Len(row)))]
          ELSE IF last(k) <= Len(row) THEN Str(row[last(k)]) ELSE Null]

DictReader(data) ==
    LET rows == ReadRows(data) IN
    IF rows = <<>> THEN <<>>
    ELSE [i \in 1..(Len(rows) - 1) |-> DictRow(rows[1], rows[i + 1])]

\* variant for C3: identity ("is") in place of ==, false for any two objects
PyEqIdentity(a, b) == FALSE

\* Python's ==  between a value read from the file and a JSON value
PyEq(a, b) == a.t = b.t /\ a.v = b.v

(***************************************************************************)
(* The file system: the two storage paths the configuration names.  A file *)
(* is missing, present and accessible ("ok"), or present without access    *)
(* rights ("locked").                                                      *)
(***************************************************************************)
UsersCsv == "src/models/data/users.csv"
TestUsersCsv == "src/models/data/test_users.csv"
Paths == {UsersCsv, TestUsersCsv}

MissingFile == [state |-> "missing", data |-> <<>>]
HeaderOnly == [state |-> "ok", data |-> WriteRow(HeaderRow)]

\* src/server.py:21-23: the path is built from constants, not from app_config
csv_file_path == UsersCsv

\* open(path, mode): the exception it raises, or "" when it succeeds
OpenError(file, mode) ==
    IF file.state = "locked" THEN "PermissionError"
    ELSE IF file.state = "missing" /\ mode = "r" THEN "FileNotFoundError"
    ELSE ""

\* variant for C7: the exit hook opening the file with "a"
HeaderAppended(file) == [state |-> "ok", data |-> file.data \o WriteRow(HeaderRow)]

\* the file after open(path, "w") ... writerow(header)
TruncateToHeader(file) == [state |-> "ok", data |-> WriteRow(HeaderRow)]

\* variant for C10: save_admin opening the file with "w"
AppendLineTruncating(file, fields) == [state |-> "ok", data |-> WriteRow(fields)]

\* the file after open(path, "a") ... writerow(fields)
AppendLine(file, fields) == [state |-> "ok", data |-> file.data \o WriteRow(fields)]

(***************************************************************************)
(* Configuration profiles (src/config/server.py).                          *)
(***************************************************************************)
Config ==
    [name |-> "Config", DEBUG |-> FALSE, TESTING |-> FALSE, CSRF_ENABLED |-> TRUE,
     WTF_CSRF_ENABLED |-> TRUE, CSV_FILE_PATH |-> UsersCsv]

ProductionConfig ==
    [Config EXCEPT !.name = "ProductionConfig", !.DEBUG = FALSE,
                   !.CSV_FILE_PATH = "${CSV_FILE_PATH}"]

DevelopmentConfig ==
    [Config EXCEPT !.name = "DevelopmentConfig", !.DEBUG = TRUE]

TestingConfig ==
    [Config EXCEPT !.name = "TestingConfig", !.TESTING = TRUE, !.DEBUG = TRUE,
                   !.CSV_FILE_PATH = TestUsersCsv, !.WTF_CSRF_ENABLED = FALSE]

NoConfig == [Config EXCEPT !.name = "none"]

config ==
    [k \in {"development", "testing", "production", "default"} |->
       CASE k = "development" -> DevelopmentConfig
         [] k = "testing" -> TestingConfig
         [] k = "production" -> ProductionConfig
         [] OTHER -> DevelopmentConfig]

\* FLASK_ENV: unset, or set to a string
Unset == [set |-> FALSE, val |-> ""]
SetTo(s) == [set |-> TRUE, val |-> s]
EnvValues ==
    {Unset} \cup {SetTo(s) : s \in {"development", "testing", "production",
                                    "default", "staging"}}

\* os.getenv('FLASK_ENV', 'development')
GetEnv(e) == IF e.set THEN e.val ELSE "development"

\* config[env]: the profile, or the KeyError of a dict lookup
SelectConfig(e) ==
    IF GetEnv(e) \in DOMAIN config
    THEN [ok |-> TRUE, profile |-> config[GetEnv(e)]]
    ELSE [ok |-> FALSE, profile |-> NoConfig]

(***************************************************************************)
(* Requests.  A JSON body is an object with any of the five keys, or not   *)
(* an object at all (an array), on which data.get raises AttributeError.   *)
(***************************************************************************)
Obj(u, e, p, r, c) ==
    [kind |-> "object", username |-> u, email |-> e, password |-> p,
     role |-> r, created |-> c]

NotAnObject ==
    [kind |-> "array", username |-> Absent, email |-> Absent, password |-> Absent,
     role |-> Absent, created |-> Absent]

Pw == Str(<<"p">>)
Admin == Str(<<"r">>)

Emails == {Str(<<"a">>), Str(<<COMMA, DQUOTE>>), Num(<<"7">>)}

\* bodies that pass the presence check
CompleteBodies ==
    {Obj(Str(<<"u">>), e, Pw, Admin, Absent) : e \in Emails}
      \cup {Obj(Str(<<DQUOTE, LF>>), e, Pw, Admin, Str(<<"c", CR>>)) : e \in Emails}

\* bodies with a required field missing or empty
IncompleteBodies ==
    {Obj(Str(<<>>), Str(<<"a">>), Pw, Admin, Absent),
     Obj(Str(<<"u">>), Null, Pw, Admin, Absent),
     Obj(Str(<<"u">>), Str(<<COMMA, DQUOTE>>), Absent, Admin, Absent),
     Obj(Str(<<"u">>), Str(<<"a">>), Pw, Num(<<"0">>), Str(<<"c", CR>>))}

Bodies == CompleteBodies \cup IncompleteBodies \cup {NotAnObject}

(***************************************************************************)
(* What a handler body ends with: a returned response or a raised          *)
(* exception; the try/except of both handlers turns the latter into the    *)
(* 500 response that carries the exception text.                           *)
(***************************************************************************)
Return(status, success, message, admins) ==
    [kind |-> "return", status |-> status, success |-> success,
     message |-> message, admins |-> admins]

Raise(exc) ==
    [kind |-> "raise", status |-> 0, success |-> FALSE, message |-> exc,
     admins |-> <<>>]

Continue == [Raise("") EXCEPT !.kind = "continue"]

\* variant for C9: a handler without its try/except
TryExceptAbsent(out) == out

TryExcept(out) ==
    IF out.kind = "raise" THEN Return(500, FALSE, out.message, <<>>) ELSE out

\* the for loop of save_admin over the rows: the first row that ends it
ScanForEmail(rows, email) ==
    LET stops == {i \in DOMAIN rows :
                    EMAIL \notin DOMAIN rows[i] \/ PyEq(rows[i][EMAIL], email)}
    IN IF stops = {} THEN "none"
       ELSE LET i == CHOOSE j \in stops : \A k \in stops : j <= k
            IN IF EMAIL \notin DOMAIN rows[i] THEN "KeyError" ELSE "duplicate"

\* src/server.py:59-74: parse, presence check, duplicate check
SaveCheck(files, body) ==
    IF body.kind # "object" THEN Raise("AttributeError")
    ELSE
      LET username == DictGet(body.username)
          email == DictGet(body.email)
          password == DictGet(body.password)
          role == DictGet(body.role)
          file == files[csv_file_path]
      IN IF ~Truthy(username) \/ ~Truthy(email) \/ ~Truthy(password) \/ ~Truthy(role)
         THEN Return(400, FALSE, "All fields are required", <<>>)
         ELSE IF OpenError(file, "r") # "" THEN Raise(OpenError(file, "r"))
         ELSE LET scan == ScanForEmail(DictReader(file.data), email) IN
              IF scan = "duplicate"
              THEN Return(409, FALSE, "Admin with this email already exists", <<>>)
              ELSE IF scan = "KeyError" THEN Raise("KeyError")
              ELSE Continue

\* src/server.py:76-83: the values of the new row, in the order of the dict
NewAdmin(body) ==
    <<CsvText(DictGet(body.username)), CsvText(DictGet(body.email)),
      CsvText(DictGet(body.password)), CsvText(DictGet(body.role)),
      CsvText(DictGetDefault(body.created))>>

\* variant for C8: check and append under one lock, the check repeated
SaveAppendRechecked(files, body) ==
    LET c == SaveCheck(files, body)
        file == files[csv_file_path]
    IN IF c.kind # "continue" THEN [out |-> c, files |-> files]
       ELSE [out |-> Return(200, TRUE, "Admin saved successfully", <<>>),
             files |-> [files EXCEPT ![csv_file_path] = AppendLine(file, NewAdmin(body))]]

\* src/server.py:85-90: append the row and answer
SaveAppend(files, body) ==
    LET file == files[csv_file_path] IN
    IF OpenError(file, "a") # ""
    THEN [out |-> Raise(OpenError(file, "a")), files |-> files]
    ELSE [out |-> Return(200, TRUE, "Admin saved successfully", <<>>),
          files |-> [files EXCEPT ![csv_file_path] = AppendLine(file, NewAdmin(body))]]

\* the whole handler, run without interruption
save_admin(files, body) ==
    LET c == SaveCheck(files, body) IN
    IF c.kind # "continue" THEN [out |-> TryExcept(c), files |-> files]
    ELSE LET a == SaveAppend(files, body)
         IN [out |-> TryExcept(a.out), files |-> a.files]

load_admins_body(files) ==
    LET file == files[csv_file_path] IN
    IF OpenError(file, "r") # "" THEN Raise(OpenError(file, "r"))
    ELSE LET admins == DictReader(file.data) IN
         IF \E i \in DOMAIN admins : RESTKEY \in DOMAIN admins[i]
         THEN Raise("TypeError")
         ELSE Return(200, TRUE, "", admins)

load_admins(files) == TryExcept(load_admins_body(files))

\* the exit hook; an exception raised in it is printed and the exit goes on
clear_csv_cache(files) ==
    LET file == files[csv_file_path] IN
    IF OpenError(file, "w") # "" THEN files
    ELSE [files EXCEPT ![csv_file_path] = TruncateToHeader(file)]

(***************************************************************************)
(* State.                                                                  *)
(*   env         FLASK_ENV of the process                                  *)
(*   phase       "boot" (before the module body ran), "running",           *)
(*               "crashed" (the module body raised), "exited"              *)
(*   app_config  the selected profile                                      *)
(*   fs          the storage files                                         *)
(*   log         the save_admin bodies received in this lifetime, in order *)
(*   resp        the last response sent                                    *)
(*   threads     request threads of the threaded server                    *)
(***************************************************************************)
Threads == {"t1", "t2"}

NoResp == [op |-> "none"] @@ Raise("")
Idle == [pc |-> "idle", body |-> NotAnObject, out |-> Raise("")]

Init ==
    /\ env \in EnvValues
    /\ phase = "boot"
    /\ app_config = NoConfig
    /\ \E f \in {MissingFile, HeaderOnly} :
         fs = [p \in Paths |-> IF p = UsersCsv THEN f ELSE MissingFile]
    /\ log = <<>>
    /\ resp = NoResp
    /\ threads = [t \in Threads |-> Idle]

\* src/server.py:10-41, the module body
Startup ==
    /\ phase = "boot"
    /\ LET sel == SelectConfig(env) IN
       IF ~sel.ok
       THEN /\ phase' = "crashed"
            /\ UNCHANGED <<app_config, fs>>
       ELSE /\ phase' = "running"
            /\ app_config' = sel.profile
            /\ fs' = [fs EXCEPT ![csv_file_path] =
                        IF @.state = "missing" THEN HeaderOnly ELSE @]
    /\ UNCHANGED <<env, log, resp, threads>>

SaveAdmin(body) ==
    /\ phase = "running"
    /\ Len(log) < MaxReqs
    /\ LET r == save_admin(fs, body) IN
         /\ fs' = r.files
         /\ resp' = [op |-> "save_admin"] @@ r.out
    /\ log' = Append(log, body)
    /\ UNCHANGED <<env, phase, app_config, threads>>

LoadAdmins ==
    /\ phase = "running"
    /\ resp' = [op |-> "load_admins"] @@ load_admins(fs)
    /\ UNCHANGED <<env, phase, app_config, fs, log, threads>>

\* index, serve_src, serve_static: send_from_directory finds the file or not
StaticRoute(route, found) ==
    /\ phase = "running"
    /\ resp' = [op |-> route]
               @@ Return(IF found THEN 200 ELSE 404, found, "", <<>>)
    /\ UNCHANGED <<env, phase, app_config, fs, log, threads>>

\* normal termination: atexit runs clear_csv_cache; no response is pending
Exit ==
    /\ phase = "running"
    /\ phase' = "exited"
    /\ fs' = clear_csv_cache(fs)
    /\ resp' = NoResp
    /\ UNCHANGED <<env, app_config, log, threads>>

\* the next process start
Restart ==
    /\ phase \in {"exited", "crashed"}
    /\ phase' = "boot"
    /\ env' \in EnvValues
    /\ app_config' = NoConfig
    /\ log' = <<>>
    /\ resp' = NoResp
    /\ UNCHANGED <<fs, threads>>

Next ==
    \/ Startup
    \/ \E body \in Bodies : SaveAdmin(body)
    \/ LoadAdmins
    \/ \E route \in {"index", "serve_src", "serve_static"}, found \in BOOLEAN :
         StaticRoute(route, found)
    \/ Exit
    \/ Restart

Spec == Init /\ [][Next]_vars

(***************************************************************************)
(* The storage file lost or made inaccessible from outside the process     *)
(* while it runs (spec 4.3: "if the file is missing or unreadable").       *)
(***************************************************************************)
EnvRemove ==
    /\ phase = "running"
    /\ fs[csv_file_path].state # "missing"
    /\ fs' = [fs EXCEPT ![csv_file_path] = MissingFile]
    /\ UNCHANGED <<env, phase, app_config, log, resp, threads>>

EnvLock ==
    /\ phase = "running"
    /\ fs[csv_file_path].state = "ok"
    /\ fs' = [fs EXCEPT ![csv_file_path].state = "locked"]
    /\ UNCHANGED <<env, phase, app_config, log, resp, threads>>

NextEnv ==
    \/ Startup
    \/ \E body \in Bodies : SaveAdmin(body)
    \/ LoadAdmins
    \/ EnvRemove
    \/ EnvLock

SpecEnv == Init /\ [][NextEnv]_vars

(***************************************************************************)
(* Requests served by concurrent threads (app.run is threaded): the        *)
(* duplicate check of save_admin and its append are two steps, each an     *)
(* open ... close of the file, with no lock between them.                  *)
(***************************************************************************)
BeginSave(t, body) ==
    /\ phase = "running"
    /\ threads[t].pc # "append"
    /\ Len(log) < MaxReqs
    /\ LET c == SaveCheck(fs, body) IN
         threads' = [threads EXCEPT ![t] =
                       IF c.kind = "continue"
                       THEN [pc |-> "append", body |-> body, out |-> c]
                       ELSE [pc |-> "done", body |-> body, out |-> TryExcept(c)]]
    /\ log' = Append(log, body)
    /\ UNCHANGED <<env, phase, app_config, fs, resp>>

FinishSave(t) ==
    /\ phase = "running"
    /\ threads[t].pc = "append"
    /\ LET a == SaveAppend(fs, threads[t].body) IN
         /\ fs' = a.files
         /\ threads' = [threads EXCEPT ![t].pc = "done", ![t].out = TryExcept(a.out)]
    /\ UNCHANGED <<env, phase, app_config, log, resp>>

\* the bodies sent concurrently: those about one email, and one without email
RaceBodies == {b \in Bodies : b.email \in {Str(<<"a">>), Null}}

NextConc ==
    \/ Startup
    \/ \E t \in Threads, body \in RaceBodies : BeginSave(t, body)
    \/ \E t \in Threads : FinishSave(t)
    \/ LoadAdmins

SpecConc == Init /\ [][NextConc]_vars

(***************************************************************************)
(* Vocabulary of the properties.                                           *)
(***************************************************************************)
\* the data rows of the storage file, as load_admins reads them
DataRows(files) == DictReader(files[csv_file_path].data)

RequiredFields(body) == <<body.username, body.email, body.password, body.role>>

\* a field that is missing (no key, or null) or empty (the empty string, or
\* the number zero, which the presence check also takes for empty)
MissingOrEmpty(val) ==
    val.t \in {"absent", "null"} \/ val = Str(<<>>) \/ val = Num(<<"0">>)

\* a record of the data model (spec 3): text attributes, the four required
\* ones non-empty, created text or omitted
ValidRecord(body) ==
    /\ body.kind = "object"
    /\ \A i \in 1..4 : RequiredFields(body)[i].t = "str" /\ RequiredFields(body)[i].v # <<>>
    /\ body.created.t \in {"str", "absent"}

\* what List must give back for a submitted record
Submitted(body) ==
    [k \in Range(HeaderRow) |->
       CASE k = USERNAME -> body.username
         [] k = EMAIL -> body.email
         [] k = PASSWORD -> body.password
         [] k = ROLE -> body.role
         [] OTHER -> IF body.created.t = "absent" THEN Str(<<>>) ELSE body.created]

\* the email of a body is the email of a row of the file
EmailInFile(files, body) ==
    \E i \in DOMAIN DataRows(files) :
        /\ EMAIL \in DOMAIN DataRows(files)[i]
        /\ DataRows(files)[i][EMAIL] = body.email

IsPrefix(a, b) == Len(a) <= Len(b) /\ SubSeq(b, 1, Len(a)) = a

\* a step in which one save_admin request was handled, and its body
SaveStep == Len(log') = Len(log) + 1
SavedBody == log'[Len(log')]

(***************************************************************************)
(* C1. Email uniqueness: from a header-only file, after any sequence of    *)
(* save_admin and load_admins requests run one after another, no two data  *)
(* rows of the storage file have the same email.                           *)
(* The code compares the text read from the file with the JSON value of    *)
(* the request, so a non-text email (7) never matches its own row ("7").   *)
(***************************************************************************)
C1_EmailUnique ==
    phase = "running" =>
      \A i, j \in DOMAIN DataRows(fs) :
          i # j => DataRows(fs)[i][EMAIL] # DataRows(fs)[j][EMAIL]

(***************************************************************************)
(* C2. Append/List round trip and order: from a header-only file, after    *)
(* any sequence of save_admin requests that are valid records with         *)
(* pairwise distinct emails, load_admins returns exactly the submitted     *)
(* records, in submission order, field for field, created being "" when    *)
(* it was omitted.                                                         *)
(***************************************************************************)
C2_RoundTrip ==
    ( /\ phase = "running"
      /\ \A i \in DOMAIN log : ValidRecord(log[i])
      /\ \A i, j \in DOMAIN log : i # j => log[i].email # log[j].email )
    => load_admins(fs) = Return(200, TRUE, "", [i \in DOMAIN log |-> Submitted(log[i])])

C2_Witness ==
    /\ phase = "running"
    /\ Len(log) = 2
    /\ \A i \in DOMAIN log : ValidRecord(log[i])
    /\ log[1].email = Str(<<COMMA, DQUOTE>>)
    /\ log[1].username = Str(<<DQUOTE, LF>>)
    /\ log[2].email = Str(<<"a">>)
    /\ resp.op = "load_admins"
    /\ Len(resp.admins) = 2

(***************************************************************************)
(* C3 as stated: a save_admin request whose email is the email of a row    *)
(* already in the file is answered 409 and leaves the file unchanged.      *)
(***************************************************************************)
C3_Original ==
    [][ (SaveStep /\ EmailInFile(fs, SavedBody))
          => (resp'.status = 409 /\ ~resp'.success /\ fs' = fs) ]_vars

(***************************************************************************)
(* C3, amended: a save_admin request whose four required fields are all    *)
(* present and non-empty and whose email is the email of a row already in  *)
(* the file is answered 409 with success false and leaves the file         *)
(* unchanged, so load_admins returns the same rows as before.              *)
(***************************************************************************)
C3_DuplicateRejected ==
    [][ ( /\ SaveStep
          /\ \A i \in 1..4 : ~MissingOrEmpty(RequiredFields(SavedBody)[i])
          /\ EmailInFile(fs, SavedBody) )
          => ( /\ resp'.op = "save_admin"
               /\ resp'.status = 409
               /\ ~resp'.success
               /\ fs' = fs
               /\ load_admins(fs') = load_admins(fs) ) ]_vars

C3_Witness ==
    /\ resp.op = "save_admin"
    /\ resp.status = 409
    /\ Len(log) = 2
    /\ log[1].email = log[2].email
    /\ log[1].username # log[2].username
    /\ Len(DataRows(fs)) = 1

(***************************************************************************)
(* C4. Required-field validation: a save_admin request in which any of     *)
(* username, email, password, role is missing or empty is answered 400     *)
(* with success false and leaves the file unchanged, whatever the file     *)
(* holds and whatever its state, also when the email is already present.   *)
(***************************************************************************)
C4_RequiredFields ==
    [][ ( /\ SaveStep
          /\ SavedBody.kind = "object"
          /\ \E i \in 1..4 : MissingOrEmpty(RequiredFields(SavedBody)[i]) )
          => ( /\ resp'.op = "save_admin"
               /\ resp'.status = 400
               /\ ~resp'.success
               /\ fs' = fs ) ]_vars

C4_Witness ==
    /\ resp.op = "save_admin"
    /\ resp.status = 400
    /\ Len(log) = 2
    /\ log[2].username = Str(<<>>)
    /\ EmailInFile(fs, log[2])

(***************************************************************************)
(* C5. Configuration fallback: for every value of FLASK_ENV, selection at  *)
(* process start returns a profile and never fails, and for an absent or   *)
(* unrecognized value the profile is the development profile.              *)
(* config[env] raises KeyError for a name that is not a key.               *)
(***************************************************************************)
C5_Fallback ==
    phase # "boot" =>
      /\ phase # "crashed"
      /\ app_config \in {DevelopmentConfig, TestingConfig, ProductionConfig}
      /\ GetEnv(env) \notin {"development", "testing", "production"}
           => (app_config = DevelopmentConfig /\ app_config.DEBUG
               /\ app_config.CSV_FILE_PATH = UsersCsv)

(***************************************************************************)
(* C6. Test isolation: while the process runs with FLASK_ENV=testing, no   *)
(* step modifies the default storage file users.csv; creation, append and  *)
(* truncation go to test_users.csv.                                        *)
(* csv_file_path is built from constants; CSV_FILE_PATH is never read.     *)
(***************************************************************************)
C6_TestIsolation ==
    [][ (GetEnv(env) = "testing" /\ env' = env)
          => fs'[UsersCsv] = fs[UsersCsv] ]_vars

(***************************************************************************)
(* C7. Exit reset: after normal termination, whatever requests ran, the    *)
(* storage file is exactly the header row, and load_admins of the next     *)
(* process, before any save_admin, returns the empty list.                 *)
(***************************************************************************)
C7_ExitReset ==
    /\ phase = "exited" =>
         /\ fs[csv_file_path] = [state |-> "ok", data |-> WriteRow(HeaderRow)]
         /\ ReadRows(fs[csv_file_path].data) = <<HeaderRow>>
    /\ (phase = "running" /\ log = <<>>) =>
         load_admins(fs) = Return(200, TRUE, "", <<>>)

C7_Witness ==
    /\ phase = "exited"
    /\ Len(log) = 2
    /\ \A i \in DOMAIN log : ValidRecord(log[i])
    /\ log[1].email # log[2].email

(***************************************************************************)
(* C8. Check-then-append race: the append of a save_admin request is not   *)
(* conditioned on the file it is appended to: a request that passed its    *)
(* duplicate check appends its row and answers success whatever other      *)
(* requests wrote in between.  The witness is the execution in which two   *)
(* requests with the same new email both succeed and leave two rows.       *)
(***************************************************************************)
C8_AppendAfterCheck ==
    [][ \A t \in Threads :
          (threads[t].pc = "append" /\ threads'[t].pc = "done")
            => ( /\ threads'[t].out.status = 200
                 /\ threads'[t].out.success
                 /\ fs'[csv_file_path].data
                      = fs[csv_file_path].data \o WriteRow(NewAdmin(threads[t].body)) ) ]_vars

C8_Race ==
    /\ threads["t1"].pc = "done" /\ threads["t1"].out.status = 200
    /\ threads["t2"].pc = "done" /\ threads["t2"].out.status = 200
    /\ threads["t1"].body.email = Str(<<"a">>)
    /\ threads["t2"].body.email = Str(<<"a">>)
    /\ Len(log) = 2
    /\ Len(DataRows(fs)) = 2
    /\ DataRows(fs)[1][EMAIL] = DataRows(fs)[2][EMAIL]

(***************************************************************************)
(* C9. No request crashes the process: in every state of the storage file, *)
(* missing and inaccessible included, save_admin and load_admins end with  *)
(* a response (200, 400, 409, or 500 with the exception text); no          *)
(* exception leaves the handler; load_admins on a missing file answers 500.*)
(***************************************************************************)
C9_NoEscape ==
    /\ [](resp.op \in {"save_admin", "load_admins"} =>
            /\ resp.kind = "return"
            /\ resp.status \in {200, 400, 409, 500}
            /\ resp.success <=> resp.status = 200
            /\ resp.status = 500 => resp.message # "")
    /\ [][ (resp' # resp /\ resp'.op = "load_admins" /\ fs[csv_file_path].state # "ok")
             => (resp'.status = 500 /\ resp'.admins = <<>>) ]_vars

C9_Witness ==
    /\ resp.op = "load_admins"
    /\ resp.status = 500
    /\ resp.message = "FileNotFoundError"
    /\ fs[csv_file_path].state = "missing"

(***************************************************************************)
(* C10. Append-only lifetime: while the process runs, every request leaves *)
(* the rows of the file in place and in order; a successful save_admin     *)
(* adds exactly one row at the end, every other request leaves the file    *)
(* identical; only the exit hook removes rows.                             *)
(***************************************************************************)
C10_AppendOnly ==
    [][ /\ (phase = "running" /\ phase' = "running" /\ SaveStep /\ resp'.status = 200)
             => fs' # fs
        /\ fs' # fs =>
             LET old == DataRows(fs)
                 new == DataRows(fs')
             IN /\ (phase = "running" /\ phase' = "running") =>
                     /\ SaveStep /\ resp'.status = 200
                     /\ Len(new) = Len(old) + 1
                     /\ IsPrefix(old, new)
                     /\ IsPrefix(fs[csv_file_path].data, fs'[csv_file_path].data)
                /\ ~IsPrefix(old, new) => (phase = "running" /\ phase' = "exited") ]_vars

C10_Witness ==
    /\ phase = "running"
    /\ resp.op = "save_admin"
    /\ resp.status = 200
    /\ Len(DataRows(fs)) = 2

====
